---------------------------- MODULE Spec2Model ----------------------------
(***************************************************************************)
(* Model of app.py: the /tnved/detect handler (reply extraction, field     *)
(* normalisation, result assembly) and the log appender that reads the     *)
(* remote logs.csv, appends one row and writes it back with the revision   *)
(* token ("sha") of the GitHub contents API.                               *)
(*                                                                         *)
(* Texts are sequences of one-character strings.  The remote file is a     *)
(* sequence of lines.  base64 and utf-8 are the transport encoding of the  *)
(* contents API and are not modelled: what is sent is what is stored.      *)
(***************************************************************************)
EXTENDS Integers, Sequences, FiniteSets, TLC

\* Number of concurrent invocations of append_row_and_push_to_github.
NProcs == 2

Procs == 1..NProcs

VARIABLES
    remote,        \* the remote file: [exists, content, sha]
    ghConfigured,  \* GH_TOKEN and GH_OWNER and GH_REPO are all set
    pc,            \* per invocation: position in the code
    row,           \* per invocation: the row argument
    old,           \* per invocation: local old
    sha,           \* per invocation: local sha (0 is None)
    content,       \* per invocation: local content_b64 (as lines)
    sha2,          \* per invocation: local sha2 (0 is None)
    calls,         \* per invocation: the HTTP calls issued so far, in order
    dpc,           \* detect: position in the handler
    inp,           \* detect: the request, [body: DetectIn, http: client and headers]
    llmCalls,      \* detect: calls of client.chat.completions.create so far
    llm,           \* detect: "none", or how the call ended: "ok", "error"
    reply,         \* detect: the model's message, [content, obj]: its text and
                   \*   the JSON object written in it (None when there is none)
    text,          \* detect: the stripped reply text
    out,           \* detect: the DetectOut built before logging
    response,      \* detect: the HTTP response, [status, body]
    logLine        \* the line csv.writer wrote for the row

appenderVars == <<remote, ghConfigured, pc, row, old, sha, content, sha2, calls>>
detectVars == <<dpc, inp, llmCalls, llm, reply, text, out, response>>
vars == <<appenderVars, detectVars, logLine>>

-----------------------------------------------------------------------------
(* Texts: sequences of one-character strings *)

Digits == {"0", "1", "2", "3", "4", "5", "6", "7", "8", "9"}
LowerCase == <<"a", "b", "c", "d", "e", "f", "g", "h", "i", "j", "k", "l", "m",
               "n", "o", "p", "q", "r", "s", "t", "u", "v", "w", "x", "y", "z">>
UpperCase == <<"A", "B", "C", "D", "E", "F", "G", "H", "I", "J", "K", "L", "M",
               "N", "O", "P", "Q", "R", "S", "T", "U", "V", "W", "X", "Y", "Z">>
Range(f) == {f[i] : i \in DOMAIN f}
\* \s of the regular expressions and the characters str.strip() removes.
WhiteSpace == {" ", "\n", "\r", "\t"}
IsDigit(c) == c \in Digits
IsSpace(c) == c \in WhiteSpace
\* \w: what \b takes for a word character.
IsWord(c) == c \in Digits \/ c \in Range(LowerCase) \/ c \in Range(UpperCase) \/ c = "_"

SetMin(S) == CHOOSE x \in S : \A y \in S : x <= y
SetMax(S) == CHOOSE x \in S : \A y \in S : x >= y

\* str.strip(): leading and trailing characters of `chars` removed.
StripChars(s, chars) ==
    LET keep == {i \in 1..Len(s) : s[i] \notin chars}
    IN  IF keep = {} THEN <<>> ELSE SubSeq(s, SetMin(keep), SetMax(keep))
Strip(s) == StripChars(s, WhiteSpace)

\* str.replace(a, b) for a one-character a and a one-character b.
ReplaceChar(s, a, b) == [i \in 1..Len(s) |-> IF s[i] = a THEN b ELSE s[i]]
\* str.replace(a, "").
RemoveChar(s, a) == SelectSeq(s, LAMBDA c : c # a)

UpperChar(c) ==
    IF \E i \in 1..26 : LowerCase[i] = c
    THEN UpperCase[CHOOSE i \in 1..26 : LowerCase[i] = c] ELSE c
LowerChar(c) ==
    IF \E i \in 1..26 : UpperCase[i] = c
    THEN LowerCase[CHOOSE i \in 1..26 : UpperCase[i] = c] ELSE c
Upper(s) == [i \in 1..Len(s) |-> UpperChar(s[i])]
Lower(s) == [i \in 1..Len(s) |-> LowerChar(s[i])]
\* str.capitalize(): first character upper-cased, the rest lower-cased.
Capitalize(s) == [i \in 1..Len(s) |-> IF i = 1 THEN UpperChar(s[i]) ELSE LowerChar(s[i])]
StartsWith(s, pre) == Len(pre) <= Len(s) /\ SubSeq(s, 1, Len(pre)) = pre

RECURSIVE Join(_, _)
\* sep.join(parts)
Join(sep, parts) ==
    IF parts = <<>> THEN <<>>
    ELSE IF Len(parts) = 1 THEN parts[1]
    ELSE parts[1] \o sep \o Join(sep, Tail(parts))

\* The end of the maximal run of characters satisfying a class that starts at
\* i (i - 1 when s[i] is not of the class).
RunEnd(s, i, class) ==
    LET stop == {j \in i..Len(s) : s[j] \notin class}
    IN  IF stop = {} THEN Len(s) ELSE SetMin(stop) - 1

RECURSIVE SplitRuns(_, _)
\* re.split(r"[seps]+", s): the pieces between maximal runs of separators.
SplitRuns(s, seps) ==
    LET at == {i \in 1..Len(s) : s[i] \in seps}
    IN  IF at = {} THEN <<s>>
        ELSE LET i == SetMin(at)
                 j == RunEnd(s, i, seps)
             IN  <<SubSeq(s, 1, i - 1)>> \o SplitRuns(SubSeq(s, j + 1, Len(s)), seps)

RECURSIVE CollapseSpace(_)
\* re.sub(r"\s+", " ", s): every run of white space becomes one space.
CollapseSpace(s) ==
    LET at == {i \in 1..Len(s) : IsSpace(s[i])}
    IN  IF at = {} THEN s
        ELSE LET i == SetMin(at)
                 j == RunEnd(s, i, WhiteSpace)
             IN  SubSeq(s, 1, i - 1) \o <<" ">> \o CollapseSpace(SubSeq(s, j + 1, Len(s)))

-----------------------------------------------------------------------------
(* Helpers of the log row and of the parsing *)

\* Mutant: the semicolon is left in the field.
clean_field_keeps_semicolon(val) ==
    IF val = <<"None">> THEN <<>>
    ELSE Strip(CollapseSpace(ReplaceChar(ReplaceChar(val, "\r", " "), "\n", " ")))

\* None, the absent value of an optional text, as a one-token text.
None == <<"None">>

\* _clean_field: line breaks to spaces, white space collapsed and stripped,
\* then every semicolon replaced by a comma.
clean_field(val) ==
    IF val = None THEN <<>>
    ELSE ReplaceChar(
            Strip(CollapseSpace(ReplaceChar(ReplaceChar(val, "\r", " "), "\n", " "))),
            ";", ",")

\* The length of a tariff code in TEN_DIGITS.
CodeLen == 10

\* _take_10digits: the first match of \b\d{10}\b in s without its spaces.
take_10digits(s) ==
    IF s = <<>> THEN <<>>
    ELSE LET t == RemoveChar(s, " ")
             at == {i \in 1..(Len(t) - CodeLen + 1) :
                      /\ \A k \in 0..(CodeLen - 1) : IsDigit(t[i + k])
                      /\ (i = 1 \/ ~IsWord(t[i - 1]))
                      /\ (i + CodeLen > Len(t) \/ ~IsWord(t[i + CodeLen]))}
         IN  IF at = {} THEN <<>> ELSE SubSeq(t, SetMin(at), SetMin(at) + CodeLen - 1)

\* _norm_percent: the first match of (\d+(\.\d+)?) in the stripped text with
\* commas turned to dots, followed by "%"; empty when there is no digit.
norm_percent(s) ==
    IF s = <<>> THEN <<>>
    ELSE LET t == ReplaceChar(Strip(s), ",", ".")
             at == {i \in 1..Len(t) : IsDigit(t[i])}
         IN  IF at = {} THEN <<>>
             ELSE LET i == SetMin(at)
                      j == RunEnd(t, i, Digits)
                      k == IF j + 2 <= Len(t) /\ t[j + 1] = "." /\ IsDigit(t[j + 2])
                           THEN RunEnd(t, j + 2, Digits) ELSE j
                  IN  SubSeq(t, i, k) \o <<"%">>

-----------------------------------------------------------------------------
(* Decoded JSON values: [t, v] with t the type and v the payload *)

VNull == [t |-> "null", v |-> <<>>]
VStr(s) == [t |-> "str", v |-> s]
\* A number is kept as its decimal literal.
VNum(ds) == [t |-> "num", v |-> ds]
VList(xs) == [t |-> "list", v |-> xs]
\* A mapping is the sequence of its [k, x] entries, in order.
VMap(kvs) == [t |-> "map", v |-> kvs]
KV(key, x) == [k |-> key, x |-> x]
\* What json.loads raises on is decoded to this.
VFail == [t |-> "fail", v |-> <<>>]

\* Python truthiness: None, "", 0, [] and {} are falsy.
Truthy(x) ==
    CASE x.t = "null" -> FALSE
      [] x.t = "num" -> \E i \in 1..Len(x.v) : x.v[i] \in (Digits \ {"0"})
      [] OTHER -> x.v # <<>>

HasKey(m, key) == \E i \in 1..Len(m.v) : m.v[i].k = key
\* dict.get(key): None when the key is absent.
Get(m, key) ==
    IF HasKey(m, key)
    THEN m.v[CHOOSE i \in 1..Len(m.v) : m.v[i].k = key].x
    ELSE VNull

NoneText == <<"N", "o", "n", "e">>

RECURSIVE PyRepr(_)
\* repr(x) of a decoded value.
PyRepr(x) ==
    CASE x.t = "str" -> <<"'">> \o x.v \o <<"'">>
      [] x.t = "num" -> x.v
      [] x.t = "null" -> NoneText
      [] x.t = "list" ->
            <<"[">> \o Join(<<",", " ">>, [i \in 1..Len(x.v) |-> PyRepr(x.v[i])]) \o <<"]">>
      [] x.t = "map" ->
            <<"{">> \o Join(<<",", " ">>,
                [i \in 1..Len(x.v) |->
                    <<"'">> \o x.v[i].k \o <<"'", ":", " ">> \o PyRepr(x.v[i].x)])
                \o <<"}">>

\* str(x) of a decoded value.
PyStr(x) == IF x.t = "str" THEN x.v ELSE PyRepr(x)

\* A string's characters as json writes them between the quotes.
JsonEscape(s) ==
    Join(<<>>, [i \in 1..Len(s) |->
        CASE s[i] = "\n" -> <<"\\", "n">>
          [] s[i] = "\r" -> <<"\\", "r">>
          [] s[i] = "\t" -> <<"\\", "t">>
          [] s[i] = "\"" -> <<"\\", "\"">>
          [] OTHER -> <<s[i]>>])

RECURSIVE JsonDumps(_)
\* The JSON text of a decoded value, as the model writes it.
JsonDumps(x) ==
    CASE x.t = "str" -> <<"\"">> \o JsonEscape(x.v) \o <<"\"">>
      [] x.t = "num" -> x.v
      [] x.t = "null" -> <<"n", "u", "l", "l">>
      [] x.t = "list" ->
            <<"[">> \o Join(<<",", " ">>, [i \in 1..Len(x.v) |-> JsonDumps(x.v[i])]) \o <<"]">>
      [] x.t = "map" ->
            <<"{">> \o Join(<<",", " ">>,
                [i \in 1..Len(x.v) |->
                    <<"\"">> \o JsonEscape(x.v[i].k) \o <<"\"", ":", " ">>
                        \o JsonDumps(x.v[i].x)])
                \o <<"}">>

-----------------------------------------------------------------------------
(* The field normalisers *)

\* The non-empty stripped str() of the elements of a list.
StrippedItems(xs) ==
    SelectSeq([i \in 1..Len(xs) |-> Strip(PyStr(xs[i]))], LAMBDA t : t # <<>>)

\* _stringify_tech31
stringify_tech31(val) ==
    CASE val.t = "null" -> <<>>
      [] val.t = "str" -> Strip(val.v)
      [] val.t = "map" ->
            LET v_s(x) ==
                    CASE x.t = "list" -> Join(<<";", " ">>, StrippedItems(x.v))
                      [] x.t = "map" ->
                            Join(<<";", " ">>,
                                [i \in 1..Len(x.v) |->
                                    x.v[i].k \o <<":", " ">> \o PyStr(x.v[i].x)])
                      [] OTHER -> Strip(PyStr(x))
                part(e) == <<"-", " ">> \o Capitalize(Strip(e.k)) \o <<":", " ">> \o v_s(e.x)
                kept == SelectSeq(val.v, LAMBDA e : v_s(e.x) # <<>>)
            IN  Join(<<"\n">>, [i \in 1..Len(kept) |-> part(kept[i])])
      [] val.t = "list" ->
            LET items == StrippedItems(val.v)
            IN  Join(<<"\n">>, [i \in 1..Len(items) |-> <<"-", " ">> \o items[i]])
      [] OTHER -> Strip(PyStr(val))

\* The localized keys of an alternative, each kept as one token.
KeyCode == <<"c", "o", "d", "e">>
KeyReason == <<"r", "e", "a", "s", "o", "n">>
KeyCodeRu == <<"kod(ru)">>
KeyReasonRu == <<"obosnovanie(ru)">>

\* a or b or "" of two looked-up values, then str().
FirstTruthyStr(a, b) ==
    IF Truthy(a) THEN PyStr(a) ELSE IF Truthy(b) THEN PyStr(b) ELSE <<>>

\* _normalize_alternatives
normalize_alternatives(val) ==
    CASE val.t = "map" ->
            [i \in 1..Len(val.v) |-> [code |-> val.v[i].k, reason |-> PyStr(val.v[i].x)]]
      [] val.t = "list" ->
            [i \in 1..Len(val.v) |->
                LET it == val.v[i] IN
                IF it.t = "map"
                THEN [code |-> FirstTruthyStr(Get(it, KeyCode), Get(it, KeyCodeRu)),
                      reason |-> FirstTruthyStr(Get(it, KeyReason), Get(it, KeyReasonRu))]
                ELSE [code |-> PyStr(it), reason |-> <<>>]]
      [] OTHER ->
            IF Truthy(val) THEN <<[code |-> PyStr(val), reason |-> <<>>]>> ELSE <<>>

\* The placeholder of an inapplicable payment (an em dash), as one token.
Dash == <<"(em dash)">>
KeyDuty == <<"d", "u", "t", "y">>
KeyVat == <<"v", "a", "t">>
KeyExcise == <<"e", "x", "c", "i", "s", "e">>
KeyFees == <<"f", "e", "e", "s">>

\* _normalize_payments
normalize_payments(val, fallback_duty, fallback_vat) ==
    LET pick(key, dflt) ==
            IF val.t = "map" /\ HasKey(val, key) /\ Get(val, key).t # "null"
            THEN Strip(PyStr(Get(val, key))) ELSE dflt
    IN  [duty |-> pick(KeyDuty, fallback_duty), vat |-> pick(KeyVat, fallback_vat),
         excise |-> pick(KeyExcise, Dash), fees |-> pick(KeyFees, Dash)]

\* The characters stripped from a fragment of a requirements string; the
\* bullet is kept as one token.
BulletChars == {" ", "-", "(bullet)", "\t"}

\* _normalize_requirements
normalize_requirements(val) ==
    CASE val.t = "list" -> StrippedItems(val.v)
      [] val.t = "str" ->
            LET frags == SelectSeq(SplitRuns(val.v, {"\n", ";"}), LAMBDA f : Strip(f) # <<>>)
                items == [i \in 1..Len(frags) |-> StripChars(frags[i], BulletChars)]
            IN  IF items # <<>> THEN items ELSE <<Strip(val.v)>>
      [] OTHER -> IF Truthy(val) THEN <<PyStr(val)>> ELSE <<>>

-----------------------------------------------------------------------------
(* detect: composition, extraction and assembly *)

TNull == <<"n", "u", "l", "l">>
Unknown == <<"U", "N", "K", "N", "O", "W", "N">>
\* " — Производитель: ", the dash and the word each kept as one token.
ManufacturerLabel == <<" ", "(em dash)", " ", "Proizvoditel(ru)", ":", " ">>

\* `x and x.strip().lower() != "null"` of an optional text.
Given(x) == x # None /\ x # <<>> /\ Lower(Strip(x)) # TNull

\* Lines 237-241: the full name handed to the model.
Compose(din) ==
    Strip(din.product)
        \o (IF Given(din.extra) THEN <<" ", "(">> \o Strip(din.extra) \o <<")">> ELSE <<>>)
        \o (IF Given(din.manufacturer)
            THEN ManufacturerLabel \o Strip(din.manufacturer) ELSE <<>>)

\* The value of a key that the reply does not carry.
VAbsent == [t |-> "absent", v |-> <<>>]
KeyDescription == <<"d", "e", "s", "c", "r", "i", "p", "t", "i", "o", "n">>
KeyTech31 == <<"t", "e", "c", "h", "3", "1">>
KeyClassReason == <<"c", "l", "a", "s", "s", "i", "f", "i", "c", "a", "t", "i", "o", "n",
                    "_", "r", "e", "a", "s", "o", "n">>
KeyAlternatives == <<"a", "l", "t", "e", "r", "n", "a", "t", "i", "v", "e", "s">>
KeyPayments == <<"p", "a", "y", "m", "e", "n", "t", "s">>
KeyRequirements == <<"r", "e", "q", "u", "i", "r", "e", "m", "e", "n", "t", "s">>

\* The JSON object of a reply from the values of its nine keys.
MkObj(f) ==
    VMap(SelectSeq(
        << KV(KeyCode, f.code), KV(KeyDuty, f.duty), KV(KeyVat, f.vat),
           KV(KeyDescription, f.description), KV(KeyTech31, f.tech31),
           KV(KeyClassReason, f.classification_reason),
           KV(KeyAlternatives, f.alternatives), KV(KeyPayments, f.payments),
           KV(KeyRequirements, f.requirements) >>,
        LAMBDA e : e.x.t # "absent"))

T10 == <<"8", "4", "7", "1", "3", "0", "0", "0", "0", "0">>
T10Spaced == <<"8", "4", "7", "1", " ", "3", "0", " ", "0", "0", "0", " ", "0">>
T9 == <<"8", "4", "7", "1", "3", "0", "0", "0", "0">>
T10Noted == <<"8", "4", "7", "1", "3", "0", "0", "0", "0", "0", ";", "\n", "a">>
TUnknownLower == <<"u", "n", "k", "n", "o", "w", "n">>
T5Pct == <<"5", "%">>
T20Pct == <<"2", "0", "%">>
T12c5 == <<"1", "2", ",", "5", " ", "%">>
TWidget == <<"W", "i", "d", "g", "e", "t">>
TAcme == <<"A", "c", "m", "e">>
TNote == <<"a", "b", ";", " ", "c">>

\* The shapes a reply gives the code key.
CodeVals ==
    { VAbsent, VNull, VStr(<<>>), VStr(T10), VStr(T10Spaced), VStr(T9), VStr(T10Noted),
      VStr(Unknown), VStr(TUnknownLower), VNum(T10), VNum(<<"0">>), VList(<<>>),
      VList(<<VStr(T10)>>), VMap(<<KV(KeyCode, VStr(T10))>>) }

\* The shapes a reply gives the duty and the vat keys.
PercentVals ==
    { VAbsent, VNull, VStr(<<>>), VStr(T5Pct), VStr(T12c5), VStr(Unknown),
      VNum(<<"5">>), VList(<<VStr(T5Pct)>>), VMap(<<KV(KeyDuty, VStr(T5Pct))>>) }

\* The shapes a reply gives the other keys.
Shapes ==
    { VAbsent, VNull, VStr(TNote), VNum(<<"7">>),
      VList(<<VStr(TNote), VMap(<<KV(KeyCode, VStr(T10)), KV(KeyReason, VStr(TNote))>>)>>),
      VMap(<<KV(KeyDuty, VStr(T5Pct)), KV(KeyFees, VNull), KV(T9, VList(<<VStr(TAcme)>>))>>) }

\* A well-formed answer with all nine keys.
FullFields ==
    [code |-> VStr(T10), duty |-> VStr(T5Pct), vat |-> VStr(T20Pct),
     description |-> VStr(TNote), tech31 |-> VStr(TNote),
     classification_reason |-> VStr(TNote),
     alternatives |-> VList(<<VMap(<<KV(KeyCode, VStr(T9)), KV(KeyReason, VStr(TNote))>>)>>),
     payments |-> VMap(<<KV(KeyDuty, VStr(T5Pct)), KV(KeyVat, VStr(T20Pct))>>),
     requirements |-> VList(<<VStr(TNote)>>)]

\* A well-formed answer with the three required keys only.
BaseFields ==
    [code |-> VStr(T10), duty |-> VStr(T5Pct), vat |-> VStr(T20Pct),
     description |-> VAbsent, tech31 |-> VAbsent, classification_reason |-> VAbsent,
     alternatives |-> VAbsent, payments |-> VAbsent, requirements |-> VAbsent]

\* The JSON objects of the replies: the well-formed answer with one key (or
\* the code and the duty together) given each of its shapes.
Objects ==
    {MkObj([BaseFields EXCEPT !.code = c]) : c \in CodeVals}
    \cup {MkObj([BaseFields EXCEPT !.duty = d]) : d \in PercentVals}
    \cup {MkObj([BaseFields EXCEPT !.vat = d]) : d \in PercentVals}
    \cup {MkObj([BaseFields EXCEPT !.code = c, !.duty = VAbsent, !.vat = VNull]) :
            c \in {VAbsent, VStr(Unknown), VStr(T9)}}
    \cup {MkObj([BaseFields EXCEPT !.description = x]) : x \in Shapes}
    \cup {MkObj([BaseFields EXCEPT !.tech31 = x]) : x \in Shapes}
    \cup {MkObj([BaseFields EXCEPT !.classification_reason = x]) : x \in Shapes}
    \cup {MkObj([BaseFields EXCEPT !.alternatives = x]) : x \in Shapes}
    \cup {MkObj([BaseFields EXCEPT !.payments = x]) : x \in Shapes}
    \cup {MkObj([BaseFields EXCEPT !.requirements = x]) : x \in Shapes}
    \cup {VMap(<<>>), MkObj(FullFields)}

\* The characters of the texts drawn for a field of the log row.
FieldChars == {"a", ";", "\n", "\r", " ", "\""}
\* Longest text drawn for a field of the log row.
MaxFieldLen == 3
FieldTexts == UNION {[1..n -> FieldChars] : n \in 0..MaxFieldLen}

\* Answers whose code is a 10-digit run, or UNKNOWN, followed by any text.
RowObjects ==
    {MkObj([BaseFields EXCEPT !.code = VStr(T10 \o t)]) : t \in FieldTexts}
    \cup {MkObj([BaseFields EXCEPT !.code = VStr(Unknown \o t)]) : t \in FieldTexts}

\* json.loads of a blob cut from a reply: the blob decodes to the object the
\* model wrote when it is exactly that object's JSON text; every other blob
\* of the replies drawn here is not JSON and raises.
JsonLoads(blob, obj) ==
    IF obj.t = "map" /\ JsonDumps(obj) = blob THEN obj ELSE VFail

\* _extract_json_block: the text from the first "{" to the last "}" decoded,
\* None when the text is empty, has no "{" or does not decode.
extract_json_block(txt, obj) ==
    IF txt = <<>> THEN VNull
    ELSE LET opens == {i \in 1..Len(txt) : txt[i] = "{"}
             closes == {i \in 1..Len(txt) : txt[i] = "}"}
         IN  IF opens = {} THEN VNull
             ELSE LET start == SetMin(opens)
                      end == IF closes = {} THEN 0 ELSE SetMax(closes)
                      d == JsonLoads(SubSeq(txt, start, end), obj)
                  IN  IF d.t = "fail" THEN VNull ELSE d

\* Lines 292-294: a code without a 10-digit run is replaced by the first run
\* found in the whole reply, else kept when it starts with UNKNOWN, else "".
RecoverCode(code, txt) ==
    IF take_10digits(code) = <<>>
    THEN LET guessed == take_10digits(txt)
         IN  IF guessed # <<>> THEN guessed
             ELSE IF StartsWith(Upper(code), Unknown) THEN code ELSE <<>>
    ELSE code

\* `x or dflt`
OrElse(x, dflt) == IF x # <<>> THEN x ELSE dflt

EmptyOut ==
    [code |-> <<>>, duty |-> <<>>, vat |-> <<>>, raw |-> <<>>, description |-> <<>>,
     tech31 |-> <<>>, classification_reason |-> <<>>, alternatives |-> <<>>,
     payments |-> [duty |-> <<>>, vat |-> <<>>, excise |-> <<>>, fees |-> <<>>],
     requirements |-> <<>>]

\* `(data.get(k) or "")` where a str is needed: a truthy value that is not a
\* str has no strip() (lines 291, 216).
NotAStr(x) == Truthy(x) /\ x.t # "str"
StrOrEmpty(x) == IF Truthy(x) /\ x.t = "str" THEN x.v ELSE <<>>

\* DetectOut's validation of an Optional[str]: a list or a mapping is
\* refused; a number is refused unless the installed pydantic coerces it.
RefusedAsStr(x, coerces) ==
    Truthy(x) /\ (x.t \in {"list", "map"} \/ (x.t = "num" /\ ~coerces))

\* Lines 285-320: from the reply text to the DetectOut, or the exception.
Assemble(txt, obj, coerces) ==
    LET found == extract_json_block(txt, obj)
        data == IF Truthy(found) THEN found ELSE VMap(<<>>)
        code0 == Strip(StrOrEmpty(Get(data, KeyCode)))
        code == OrElse(RecoverCode(code0, txt), Unknown)
        duty == OrElse(norm_percent(StrOrEmpty(Get(data, KeyDuty))), Unknown)
        vat == OrElse(norm_percent(StrOrEmpty(Get(data, KeyVat))), Unknown)
        descr == Get(data, KeyDescription)
        reason == Get(data, KeyClassReason)
    IN  IF \/ NotAStr(Get(data, KeyCode))
           \/ NotAStr(Get(data, KeyDuty))
           \/ NotAStr(Get(data, KeyVat))
           \/ RefusedAsStr(descr, coerces)
           \/ RefusedAsStr(reason, coerces)
        THEN [raised |-> TRUE, out |-> EmptyOut]
        ELSE [raised |-> FALSE,
              out |-> [code |-> code, duty |-> duty, vat |-> vat, raw |-> txt,
                       description |-> IF Truthy(descr) THEN PyStr(descr) ELSE <<>>,
                       tech31 |-> stringify_tech31(Get(data, KeyTech31)),
                       classification_reason |->
                            IF Truthy(reason) THEN PyStr(reason) ELSE <<>>,
                       alternatives |-> normalize_alternatives(Get(data, KeyAlternatives)),
                       payments |-> normalize_payments(Get(data, KeyPayments), duty, vat),
                       requirements |-> normalize_requirements(Get(data, KeyRequirements))]]

-----------------------------------------------------------------------------
(* The log row and its line *)

\* Lines 328-338: the timestamp, then eight cleaned fields.
LogRow(ts, ip, din, code, duty, vat, ua) ==
    << ts, clean_field(ip), clean_field(din.manufacturer), clean_field(din.product),
       clean_field(din.extra), clean_field(code), clean_field(duty), clean_field(vat),
       clean_field(ua) >>

\* csv's minimal quoting: a field holding the delimiter, the quote or a line
\* break is put in quotes with its quotes doubled.
CsvField(f) ==
    IF \E i \in 1..Len(f) : f[i] \in {";", "\"", "\r", "\n"}
    THEN <<"\"">>
            \o Join(<<>>, [i \in 1..Len(f) |-> IF f[i] = "\"" THEN <<"\"", "\"">> ELSE <<f[i]>>])
            \o <<"\"">>
    ELSE f

\* csv.writer(out, delimiter=";").writerow(row): the line with its terminator.
CsvLine(r) == Join(<<";">>, [i \in 1..Len(r) |-> CsvField(r[i])]) \o <<"\r", "\n">>

-----------------------------------------------------------------------------
(* The remote store (GitHub contents API) *)

\* The header line written to a new file.  The file is the sequence of its
\* lines, a line the sequence of its characters with its terminator; a name
\* of the header is kept as one token.
HEADER ==
    << "ts_iso", ";", "ip", ";", "manufacturer", ";", "product", ";", "extra", ";",
       "code", ";", "duty", ";", "vat", ";", "user_agent", "\n" >>

NoFile == [exists |-> FALSE, content |-> <<>>, sha |-> 0]

\* Statuses a GET of the contents can answer with: 200 with the file, 404
\* without it, and at any time 409 (repository conflict/empty) or 500.
GetStatuses(r) == (IF r.exists THEN {200} ELSE {404}) \cup {409, 500}

\* The store's answer to a PUT: a create (no sha) succeeds with 201 only when
\* the file does not exist and is refused with 422 otherwise; an update is
\* accepted with 200 only when the sha is that of the current revision and is
\* refused with 409 otherwise.
StorePutStatus(r, s) ==
    IF s = 0
    THEN (IF r.exists THEN 422 ELSE 201)
    ELSE (IF r.exists /\ r.sha = s THEN 200 ELSE 409)

\* The file after an accepted PUT: the sent content under a fresh sha.
StoreAfterPut(r, c) == [exists |-> TRUE, content |-> c, sha |-> r.sha + 1]

\* The payload of _put_contents: the sha is sent only when it is truthy.
put_contents_payload(c, s) == [content |-> c, sha |-> IF s # 0 THEN s ELSE 0]

-----------------------------------------------------------------------------
(* append_row_and_push_to_github *)

\* Step 2: the new CSV is the old text, or the header when old is empty,
\* followed by the row.
NewCsv(o, rw) == (IF o # <<>> THEN o ELSE <<HEADER>>) \o <<CsvLine(rw)>>

\* Mutant: the retry appends the row once more to what it sends.
RetryContentRowAgain(p) == content[p] \o <<CsvLine(row[p])>>

\* The content sent by the retry write (line 156 sends content_b64 again).
RetryContent(p) == content[p]

\* Mutant: a server error of the first GET does not abort either.
FetchToleratedWide == {404, 409, 500}

\* The not-200 statuses of the first GET that do not abort the append.
FetchTolerated == {404, 409}

\* Guard of line 120: any of the three identifiers unset makes it a no-op.
AppendDisabled(p) ==
    /\ pc[p] = "append"
    /\ ~ghConfigured
    /\ pc' = [pc EXCEPT ![p] = "done"]
    /\ UNCHANGED <<remote, ghConfigured, row, old, sha, content, sha2, calls>>
    /\ UNCHANGED <<detectVars, logLine>>

\* Lines 124-145: the first GET, then the new CSV is computed.
Fetch(p) ==
    /\ pc[p] = "append"
    /\ ghConfigured
    /\ \E st \in GetStatuses(remote) :
         /\ calls' = [calls EXCEPT ![p] = Append(@,
                [op |-> "GET", status |-> st, sha |-> remote.sha,
                 content |-> remote.content, after |-> remote.content])]
         /\ IF st = 200
            THEN /\ sha' = [sha EXCEPT ![p] = remote.sha]
                 /\ old' = [old EXCEPT ![p] = remote.content]
                 /\ content' = [content EXCEPT ![p] = NewCsv(remote.content, row[p])]
                 /\ pc' = [pc EXCEPT ![p] = "put"]
            ELSE IF st \in FetchTolerated
            THEN /\ content' = [content EXCEPT ![p] = NewCsv(<<>>, row[p])]
                 /\ pc' = [pc EXCEPT ![p] = "put"]
                 /\ UNCHANGED <<sha, old>>
            ELSE /\ pc' = [pc EXCEPT ![p] = "done"]
                 /\ UNCHANGED <<sha, old, content>>
    /\ UNCHANGED <<remote, ghConfigured, row, sha2, detectVars, logLine>>

\* Lines 148-151 and 161: the first PUT.
Put(p) ==
    /\ pc[p] = "put"
    /\ LET pl == put_contents_payload(content[p], sha[p]) IN
       \E st \in {StorePutStatus(remote, pl.sha), 500} :
         /\ remote' = IF st \in {200, 201} THEN StoreAfterPut(remote, pl.content)
                      ELSE remote
         /\ calls' = [calls EXCEPT ![p] = Append(@,
                [op |-> "PUT", status |-> st, sha |-> pl.sha,
                 content |-> pl.content, after |-> remote'.content])]
         /\ pc' = [pc EXCEPT ![p] = IF st = 409 THEN "refetch" ELSE "done"]
    /\ UNCHANGED <<ghConfigured, row, old, sha, content, sha2, detectVars, logLine>>

\* Lines 153-155: the second GET, after a 409 of the first PUT.
Refetch(p) ==
    /\ pc[p] = "refetch"
    /\ \E st \in GetStatuses(remote) :
         /\ calls' = [calls EXCEPT ![p] = Append(@,
                [op |-> "GET", status |-> st, sha |-> remote.sha,
                 content |-> remote.content, after |-> remote.content])]
         /\ IF st = 200
            THEN /\ sha2' = [sha2 EXCEPT ![p] = remote.sha]
                 /\ pc' = [pc EXCEPT ![p] = "reput"]
            ELSE /\ pc' = [pc EXCEPT ![p] = "done"]
                 /\ UNCHANGED sha2
    /\ UNCHANGED <<remote, ghConfigured, row, old, sha, content, detectVars, logLine>>

\* Lines 156-160: the retry PUT; whatever it answers, the append ends.
RePut(p) ==
    /\ pc[p] = "reput"
    /\ LET pl == put_contents_payload(RetryContent(p), sha2[p]) IN
       \E st \in {StorePutStatus(remote, pl.sha), 500} :
         /\ remote' = IF st \in {200, 201} THEN StoreAfterPut(remote, pl.content)
                      ELSE remote
         /\ calls' = [calls EXCEPT ![p] = Append(@,
                [op |-> "PUT", status |-> st, sha |-> pl.sha,
                 content |-> pl.content, after |-> remote'.content])]
         /\ pc' = [pc EXCEPT ![p] = "done"]
    /\ UNCHANGED <<ghConfigured, row, old, sha, content, sha2, detectVars, logLine>>

\* requests.get / requests.put raising (connection error): nothing in
\* append_row_and_push_to_github catches it, so it leaves the function.
RemoteRaises(p) ==
    /\ pc[p] \in {"put", "refetch", "reput"} \/ (pc[p] = "append" /\ ghConfigured)
    /\ pc' = [pc EXCEPT ![p] = "raised"]
    /\ UNCHANGED <<remote, ghConfigured, row, old, sha, content, sha2, calls>>
    /\ UNCHANGED <<detectVars, logLine>>

-----------------------------------------------------------------------------
\* The rows already in the file when the invocations start.
OldRow == <<"o", "l", "d", "\r", "\n">>

InitialRemotes ==
    { NoFile,
      [exists |-> TRUE, content |-> <<>>, sha |-> 1],
      [exists |-> TRUE, content |-> <<HEADER>>, sha |-> 1],
      [exists |-> TRUE, content |-> <<HEADER, OldRow>>, sha |-> 1] }

\* The row argument of invocation p, one per invocation.
RowOf(p) == << <<"r", "o", "w">>, <<ToString(p)>> >>

NoInp ==
    [body |-> [manufacturer |-> <<>>, product |-> <<>>, extra |-> None],
     http |-> [host |-> None, ua |-> <<>>]]
NoResponse == [status |-> 0, body |-> EmptyOut]
NoReply == [content |-> None, obj |-> VNull]

\* The locals of the invocations before they run.
AppenderLocalsInit ==
    /\ old = [p \in Procs |-> <<>>]
    /\ sha = [p \in Procs |-> 0]
    /\ content = [p \in Procs |-> <<>>]
    /\ sha2 = [p \in Procs |-> 0]
    /\ calls = [p \in Procs |-> <<>>]

\* No request is being handled.
DetectIdle ==
    /\ dpc = "none"
    /\ inp = NoInp
    /\ llmCalls = 0
    /\ llm = "none"
    /\ reply = NoReply
    /\ text = <<>>
    /\ out = EmptyOut
    /\ response = NoResponse

\* Concurrent invocations of the appender, each with a row of its own.
Init ==
    /\ remote \in InitialRemotes
    /\ ghConfigured \in BOOLEAN
    /\ pc = [p \in Procs |-> "append"]
    /\ row = [p \in Procs |-> RowOf(p)]
    /\ AppenderLocalsInit
    /\ DetectIdle
    /\ logLine = <<>>

Step(p) ==
    \/ AppendDisabled(p)
    \/ Fetch(p)
    \/ Put(p)
    \/ Refetch(p)
    \/ RePut(p)
    \/ RemoteRaises(p)

Next == \E p \in Procs : Step(p)

Spec == Init /\ [][Next]_vars

-----------------------------------------------------------------------------
(* detect: the handler *)

\* The invocation of the appender made by the request being handled.
Handler == SetMin(Procs)
\* The invocation made by a concurrent request (this process or a replica).
Rivals == {p \in Procs : p = Handler + 1}

\* time.strftime("%Y-%m-%d %H:%M:%S")
TS == <<"2", "0", "2", "6", "-", "0", "1", "-", "0", "2", " ",
        "0", "3", ":", "0", "4", ":", "0", "5">>

\* Mutant: an exception that left the appender fails the request.
ResponseAfterLogPropagates ==
    IF pc[Handler] = "raised" THEN [status |-> 500, body |-> EmptyOut]
    ELSE [status |-> 200, body |-> out]

\* Lines 340-343: whatever the appender did, out is returned.
ResponseAfterLog == [status |-> 200, body |-> out]

\* Mutant: a failed call of the model is tried once more.
ModelAttemptsTwo == {1, 2}

\* Lines 273-283: the model is called once; a failure is not retried.
ModelAttempts == {1}

\* Lines 237-244: the full name is composed; an empty one is answered 400.
DetectValidate ==
    /\ dpc = "start"
    /\ IF Compose(inp.body) = <<>>
       THEN /\ response' = [status |-> 400, body |-> EmptyOut]
            /\ dpc' = "end"
       ELSE /\ dpc' = "call"
            /\ UNCHANGED response
    /\ UNCHANGED <<appenderVars, inp, llmCalls, llm, reply, text, out, logLine>>

\* Lines 273-285: the call of the model; it raises, answered 502, or replies.
CallModel(replies) ==
    /\ dpc = "call"
    /\ \E n \in ModelAttempts :
        /\ llmCalls' = llmCalls + n
        /\ \/ /\ llm' = "error"
              /\ response' = [status |-> 502, body |-> EmptyOut]
              /\ dpc' = "end"
              /\ UNCHANGED <<reply, text>>
           \/ /\ llm' = "ok"
              /\ \E r \in replies :
                    /\ reply' = r
                    /\ text' = IF r.content = None THEN <<>> ELSE Strip(r.content)
              /\ dpc' = "parse"
              /\ UNCHANGED response
    /\ UNCHANGED <<appenderVars, inp, out, logLine>>

\* Lines 288-320: extraction, normalisation and the DetectOut; an exception
\* there leaves the handler and is answered 500.
AssembleOut ==
    /\ dpc = "parse"
    /\ \E coerces \in BOOLEAN :
        LET r == Assemble(text, reply.obj, coerces) IN
        IF r.raised
        THEN /\ response' = [status |-> 500, body |-> EmptyOut]
             /\ dpc' = "end"
             /\ UNCHANGED out
        ELSE /\ out' = r.out
             /\ dpc' = "log"
             /\ UNCHANGED response
    /\ UNCHANGED <<appenderVars, inp, llmCalls, llm, reply, text, logLine>>

\* Lines 324-339: the row is built and the appender called.
LogAppend ==
    /\ dpc = "log"
    /\ row' = [row EXCEPT ![Handler] =
                LogRow(TS, inp.http.host, inp.body, out.code, out.duty, out.vat,
                       inp.http.ua)]
    /\ logLine' = CsvLine(row'[Handler])
    /\ pc' = [pc EXCEPT ![Handler] = "append"]
    /\ dpc' = "appending"
    /\ UNCHANGED <<remote, ghConfigured, old, sha, content, sha2, calls>>
    /\ UNCHANGED <<inp, llmCalls, llm, reply, text, out, response>>

\* Lines 340-343: the appender returned or raised; out is returned.
DetectReturn ==
    /\ dpc = "appending"
    /\ pc[Handler] \in {"done", "raised"}
    /\ response' = ResponseAfterLog
    /\ dpc' = "end"
    /\ UNCHANGED <<appenderVars, inp, llmCalls, llm, reply, text, out, logLine>>

-----------------------------------------------------------------------------
(* Requests and replies *)

RequestC8 ==
    [body |-> [manufacturer |-> TAcme, product |-> TWidget, extra |-> None],
     http |-> [host |-> <<"1", ".", "2">>, ua |-> <<"c", "u", "r", "l">>]]

Requests ==
    { RequestC8,
      [body |-> [manufacturer |-> TNull, product |-> <<>>, extra |-> None],
       http |-> [host |-> None, ua |-> <<>>]],
      [body |-> [manufacturer |-> <<>>, product |-> <<" ">>,
                 extra |-> <<" ", "N", "U", "L", "L">>],
       http |-> [host |-> None, ua |-> <<>>]],
      [body |-> [manufacturer |-> <<>>, product |-> <<>>, extra |-> <<" ">>],
       http |-> [host |-> None, ua |-> <<>>]],
      [body |-> [manufacturer |-> <<"A", ";", "\n", "b">>, product |-> TWidget,
                 extra |-> <<"x">>],
       http |-> [host |-> <<"1", ".", "2">>, ua |-> <<"U", ";", "\r", "\n", "a">>]] }

ReplyC8 ==
    TWidget \o <<" ", ";", " ">> \o T10 \o <<";", " ">> \o T5Pct \o <<";", " ">> \o T20Pct

\* A reply that is an object's JSON text between a preamble and a trailer.
ReplyOf(pre, o, post) == [content |-> pre \o JsonDumps(o) \o post, obj |-> o]
\* A reply whose text holds no JSON object.
PlainReply(t) == [content |-> t, obj |-> VNull]

\* The replies: every object alone, an object after a preamble that names a
\* code, an object in white space, an object followed by a stray brace,
\* texts without an object, and a message without content.
Replies ==
    {ReplyOf(<<>>, o, <<>>) : o \in Objects}
    \cup {ReplyOf(T10 \o <<":", " ">>, MkObj([BaseFields EXCEPT !.code = c]), <<>>) :
            c \in {VStr(Unknown), VAbsent, VStr(T9)}}
    \cup {ReplyOf(<<" ", "\n">>, MkObj(FullFields), <<"\n">>)}
    \cup {ReplyOf(<<>>, MkObj(BaseFields), <<"}">>)}
    \cup {PlainReply(t) :
            t \in { ReplyC8, <<>>, <<"{", "o">>, <<"}", " ", "{">>, Unknown, T10,
                    <<"x">> \o T10, T10Spaced \o <<".">>, T9 }}
    \cup {NoReply}

\* One request is handled while a concurrent request's row is appended.
InitDetect ==
    /\ remote \in InitialRemotes
    /\ ghConfigured \in BOOLEAN
    /\ pc = [p \in Procs |-> IF p = Handler THEN "idle"
                             ELSE IF p \in Rivals THEN "append" ELSE "done"]
    /\ row = [p \in Procs |-> RowOf(p)]
    /\ AppenderLocalsInit
    /\ dpc = "start"
    /\ inp \in Requests
    /\ llmCalls = 0
    /\ llm = "none"
    /\ reply = NoReply
    /\ text = <<>>
    /\ out = EmptyOut
    /\ response = NoResponse
    /\ logLine = <<>>

NextDetect ==
    \/ DetectValidate
    \/ CallModel(Replies)
    \/ AssembleOut
    \/ LogAppend
    \/ DetectReturn
    \/ \E p \in Procs : Step(p)

SpecDetect == InitDetect /\ [][NextDetect]_vars

-----------------------------------------------------------------------------
(* One request alone, with arbitrary texts in the fields of its log row *)

\* The replies drawn for a request: every code text for RequestC8, the
\* well-formed answer for a request with a text of its own replaced.
RowReplies(request) ==
    IF request = RequestC8 THEN {ReplyOf(<<>>, o, <<>>) : o \in RowObjects}
    ELSE {ReplyOf(<<>>, MkObj(BaseFields), <<>>)}

\* The request of RequestC8 with one of its texts replaced.
RowRequests ==
    {[RequestC8 EXCEPT !.body.manufacturer = t] : t \in FieldTexts}
    \cup {[RequestC8 EXCEPT !.body.product = t] : t \in FieldTexts}
    \cup {[RequestC8 EXCEPT !.body.extra = t] : t \in FieldTexts}
    \cup {[RequestC8 EXCEPT !.http.host = t] : t \in FieldTexts \cup {None}}
    \cup {[RequestC8 EXCEPT !.http.ua = t] : t \in FieldTexts}

InitRow ==
    /\ remote \in InitialRemotes
    /\ ghConfigured = TRUE
    /\ pc = [p \in Procs |-> IF p = Handler THEN "idle" ELSE "done"]
    /\ row = [p \in Procs |-> RowOf(p)]
    /\ AppenderLocalsInit
    /\ dpc = "start"
    /\ inp \in RowRequests
    /\ llmCalls = 0
    /\ llm = "none"
    /\ reply = NoReply
    /\ text = <<>>
    /\ out = EmptyOut
    /\ response = NoResponse
    /\ logLine = <<>>

\* The handler alone: no other request writes, so no write is refused as stale.
NextRow ==
    \/ DetectValidate
    \/ CallModel(RowReplies(inp))
    \/ AssembleOut
    \/ LogAppend
    \/ Fetch(Handler)
    \/ Put(Handler)
    \/ RemoteRaises(Handler)
    \/ DetectReturn

SpecRow == InitRow /\ [][NextRow]_vars

\* Every HTTP call returns or raises, so an invocation that can take a step
\* eventually takes it.
FairSpec == Spec /\ \A p \in Procs : WF_vars(Step(p))

-----------------------------------------------------------------------------
(* Claims about the log appender *)

Gets(p) == SelectSeq(calls[p], LAMBDA c : c.op = "GET")
Puts(p) == SelectSeq(calls[p], LAMBDA c : c.op = "PUT")
IsPrefix(s, t) == Len(s) <= Len(t) /\ SubSeq(t, 1, Len(s)) = s
Count(x, s) == Cardinality({i \in 1..Len(s) : s[i] = x})
Ok(st) == st \in {200, 201}

\* C1: when the first write answers 409 and the refetch succeeds, the retry
\* write sends the refetched content with the row appended, and after a
\* successful retry the remote file is the refetched content plus that row.
C1_RetrySendsRefetchedContent ==
    \A p \in Procs :
        (Len(Puts(p)) = 2 /\ Len(Gets(p)) = 2 /\ Gets(p)[2].status = 200) =>
            /\ Puts(p)[2].content = NewCsv(Gets(p)[2].content, row[p])
            /\ Ok(Puts(p)[2].status) =>
                   Puts(p)[2].after = NewCsv(Gets(p)[2].content, row[p])

\* C2: the remote log file is append-only: every accepted write's content
\* extends the content it replaces, under every interleaving.
C2_AppendOnly ==
    [][remote.exists => IsPrefix(remote.content, remote'.content)]_vars

\* C6 (state part): an invocation issues at most two GETs and two PUTs; a
\* second PUT only after a 409 of the first and a 200 of the refetch; after
\* the second PUT nothing more is attempted; and when the retry succeeds
\* the file it leaves holds the new row exactly once.
C6_Bounded ==
    \A p \in Procs :
        /\ Len(Gets(p)) <= 2
        /\ Len(Puts(p)) <= 2
        /\ Len(Puts(p)) = 2 =>
              /\ Puts(p)[1].status = 409
              /\ Len(Gets(p)) = 2
              /\ Gets(p)[2].status = 200
              /\ calls[p][4].op = "PUT"
              /\ pc[p] = "done"
              /\ Ok(Puts(p)[2].status) => Count(CsvLine(row[p]), Puts(p)[2].after) = 1

Terminated == \A p \in Procs : pc[p] \in {"done", "raised"}

\* C6: one invocation performs at most two fetches and two writes, retries
\* exactly once and only after a conflict, leaves the new row exactly once
\* after a successful retry, and terminates.
C6_AtMostOneRetryThenTerminates == []C6_Bounded /\ <>[]Terminated

\* C6 witness: the first write conflicted and the retry succeeded.
C6_Witness ==
    \E p \in Procs :
        /\ pc[p] = "done"
        /\ Len(Puts(p)) = 2
        /\ Puts(p)[1].status = 409
        /\ Puts(p)[2].status = 200

\* C10 as stated: only a 404 of the initial fetch starts a new file; any
\* other status that is not 200 aborts with no write and no retry.
C10_OnlyNotFoundStartsNewFile ==
    \A p \in Procs :
        (Len(calls[p]) >= 1 /\ calls[p][1].status \notin {200, 404}) =>
            Len(calls[p]) = 1 /\ pc[p] \in {"done", "raised"}

\* C10 amended: a 404 or a 409 of the initial fetch starts a new file with
\* the header row, written without a sha; a 200 makes the write carry the
\* fetched sha and the fetched content (the header when it is empty) plus
\* the row; every other status aborts with no write and no further call.
C10_FetchStatusDecidesWrite ==
    \A p \in Procs :
        Len(calls[p]) >= 1 =>
            LET g == calls[p][1] IN
            /\ g.op = "GET"
            /\ g.status \in {404, 409} =>
                  (Len(calls[p]) >= 2 =>
                      /\ calls[p][2].op = "PUT"
                      /\ calls[p][2].sha = 0
                      /\ calls[p][2].content = <<HEADER, CsvLine(row[p])>>)
            /\ g.status = 200 =>
                  (Len(calls[p]) >= 2 =>
                      /\ calls[p][2].op = "PUT"
                      /\ calls[p][2].sha = g.sha
                      /\ calls[p][2].sha # 0
                      /\ calls[p][2].content =
                            (IF g.content = <<>> THEN <<HEADER>> ELSE g.content)
                                \o <<CsvLine(row[p])>>)
            /\ g.status \notin {200, 404, 409} =>
                  Len(calls[p]) = 1 /\ pc[p] = "done"

\* C10 witness: a 409 of the initial fetch was followed by a create.
C10_Witness ==
    \E p \in Procs :
        /\ Len(calls[p]) >= 2
        /\ calls[p][1].status = 409
        /\ calls[p][2].op = "PUT"
        /\ calls[p][2].sha = 0
        /\ calls[p][2].status = 201

-----------------------------------------------------------------------------
(* Claims about the handler *)

\* C3: whatever the log appender did during a request whose model call
\* succeeded (disabled, fetch error, write error, conflict and failed
\* retry, exception), detect answers 200 with the DetectOut computed
\* before logging.
C3_LogOutcomeNeverChangesResponse ==
    (dpc = "end" /\ pc[Handler] # "idle") =>
        /\ llm = "ok"
        /\ response.status = 200
        /\ response.body = out
        /\ \E coerces \in BOOLEAN :
              LET r == Assemble(text, reply.obj, coerces)
              IN  ~r.raised /\ response.body = r.out

\* C3 witness: the first write conflicted, the retry failed, and the
\* request was answered.
C3_Witness ==
    /\ dpc = "end"
    /\ Len(Puts(Handler)) = 2
    /\ Puts(Handler)[1].status = 409
    /\ ~Ok(Puts(Handler)[2].status)
    /\ response.status = 200

\* C4: every reply of a successful model call, whatever the shapes of the
\* fields of its JSON object, is answered 200: nothing raises, no 5xx.
C4_EveryReplyAnswered200 ==
    (dpc = "end" /\ llm = "ok") => response.status = 200

IsTenDigits(s) == Len(s) = CodeLen /\ \A i \in 1..Len(s) : IsDigit(s[i])
\* A decimal number followed by "%".
IsPercent(s) ==
    /\ Len(s) >= 2
    /\ s[Len(s)] = "%"
    /\ IsDigit(s[1])
    /\ IsDigit(s[Len(s) - 1])
    /\ \A i \in 1..(Len(s) - 1) : IsDigit(s[i]) \/ s[i] = "."
    /\ Cardinality({i \in 1..Len(s) : s[i] = "."}) <= 1

\* C5: in every 200 response the code is 10 digits or UNKNOWN, the duty
\* and the vat are a decimal number with "%" or UNKNOWN, none is empty, and
\* alternatives, payments and requirements are present.
C5_ResponseFieldsWellShaped ==
    response.status = 200 =>
        /\ IsTenDigits(response.body.code) \/ response.body.code = Unknown
        /\ IsPercent(response.body.duty) \/ response.body.duty = Unknown
        /\ IsPercent(response.body.vat) \/ response.body.vat = Unknown
        /\ response.body.code # <<>>
        /\ response.body.duty # <<>>
        /\ response.body.vat # <<>>
        /\ DOMAIN response.body.payments = {"duty", "vat", "excise", "fees"}
        /\ response.body.alternatives \in Seq([code : Seq(STRING), reason : Seq(STRING)])
        /\ response.body.requirements \in Seq(Seq(STRING))

\* The composed description of a request body is empty.
C7_DescriptionEmpty(b) ==
    Strip(b.product) = <<>> /\ ~Given(b.extra) /\ ~Given(b.manufacturer)

\* C7: per request the model is called at most once: not at all when the
\* composed description is empty (400 before any external call, the log
\* append included), exactly once otherwise; a failed call is answered 502
\* without a retry.
C7_ModelCalledAtMostOnce ==
    /\ llmCalls <= 1
    /\ dpc \in {"start", "call"} => llmCalls = 0
    /\ dpc \in {"parse", "log", "appending"} => llmCalls = 1 /\ llm = "ok"
    /\ dpc = "end" =>
          IF C7_DescriptionEmpty(inp.body)
          THEN /\ llmCalls = 0
               /\ response.status = 400
               /\ pc[Handler] = "idle"
               /\ calls[Handler] = <<>>
          ELSE /\ llmCalls = 1
               /\ response.status # 400
               /\ llm = "error" =>
                    /\ response.status = 502
                    /\ pc[Handler] = "idle"
                    /\ calls[Handler] = <<>>

\* C7 witness: the one call of the model failed and the request was
\* answered 502.
C7_Witness ==
    /\ dpc = "end"
    /\ llm = "error"
    /\ llmCalls = 1
    /\ response.status = 502

\* C8: for the request {manufacturer: "Acme", product: "Widget", extra:
\* null} and the reply "Widget ; 8471300000; 5%; 20%", which holds no JSON
\* object, the code and the percentages are taken from the raw text.
C8_FallbackFromRawText ==
    (dpc = "end" /\ inp = RequestC8 /\ llm = "ok" /\ text = ReplyC8) =>
        /\ response.status = 200
        /\ response.body.code = T10
        /\ response.body.duty = T5Pct
        /\ response.body.vat = T20Pct

=============================================================================
